---- MODULE Spec2Model ----
(***************************************************************************)
(* Model of the Blast It license server (src/server.js): one table of     *)
(* licenses in Postgres, written by the admin grant route and by the      *)
(* Stripe webhook route through upsertLicense, read by the check-license  *)
(* route through findLicenseByEmail.                                      *)
(*                                                                         *)
(* Time is a counter of ticks; a calendar month is MonthTicks ticks.      *)
(* A request handler runs at one tick (clock); ticks pass between         *)
(* requests.  JavaScript values that reach the handlers untyped (the      *)
(* email of a body, a header, a field of a Stripe object) are records     *)
(* [t, s]: t the typeof/null tag, s the characters of a string.           *)
(* A nullable SQL column is a set: {} is NULL, {v} holds v.               *)
(*                                                                         *)
(* In Spec and SpecReplay a handler is one step, from the request to its  *)
(* answer: handlers suspended at an await do not interleave there.        *)
(***************************************************************************)
EXTENDS Integers, Sequences, FiniteSets, TLC

\* ---------------------------------------------------------------- bounds
MaxClock == 2
MaxRequests == 3
MonthTicks == 1

\* ------------------------------------------------------- JavaScript values
Undefined == [t |-> "undefined", s |-> ""]
Null == [t |-> "null", s |-> ""]
Str(x) == [t |-> "string", s |-> x]
Num123 == [t |-> "number", s |-> "123"]

\* !v of JavaScript, negated: undefined, null and "" are falsy.
Truthy(v) == /\ v.t \notin {"undefined", "null"}
             /\ ~(v.t = "string" /\ v.s = "")

\* v has a toLowerCase method (calling it on anything else throws TypeError).
IsString(v) == v.t = "string"

\* String.prototype.toLowerCase on the e-mail strings of the model.
ToLowerCase(x) ==
  CASE x = "A@X.com" -> "a@x.com"
    [] OTHER -> x

\* node-postgres sends undefined and null parameters as NULL.
ToSql(v) == IF v.t \in {"undefined", "null"} THEN {} ELSE {v.s}

\* ------------------------------------------------------------------ dates
\* Date.prototype.getMonth / setMonth on ticks: the month index of a date,
\* and the date moved to month m keeping its offset within the month.
getMonth(d) == d \div MonthTicks
setMonth(d, m) == m * MonthTicks + (d % MonthTicks)

\* new Date(now.setMonth(now.getMonth() + months))
AddMonths(now, months) == setMonth(now, getMonth(now) + months)

\* ------------------------------------------------------------------ state
VARIABLES
  licenses,   \* the rows of table licenses
  clock,      \* the current time (new Date(), NOW())
  adminApiKey,\* process.env.ADMIN_API_KEY
  alive,      \* the node process is running
  last,       \* the last request handled and the response it got
  nreq,       \* requests handled so far
  processed,  \* history (SpecReplay): the grant events applied so far,
              \* each with the identity it was applied to
  replayed,   \* history (SpecReplay): identities whose cancelled row a
              \* re-delivered grant event has written last
  before,     \* history (SpecHist): the table and the last request as they
              \* were when the last request arrived
  inflight    \* (SpecConc) the handlers suspended at await pool.query, each
              \* with the upsert it sent

vars == <<licenses, clock, adminApiKey, alive, last, nreq, processed, replayed,
          before, inflight>>

\* CREATE TABLE licenses: a row (id SERIAL is left out: nothing reads it).
Row(email, active, expiresAt, customer, subscription, created, updated) ==
  [email |-> email, active |-> active, expires_at |-> expiresAt,
   stripe_customer_id |-> customer, stripe_subscription_id |-> subscription,
   created_at |-> created, updated_at |-> updated]

\* ---------------------------------------------------------------- helpers
\* upsertLicense without email.toLowerCase(): the row is keyed by the email
\* as it was given.
upsertLicense_NoLowerCase(rows, email, customer, subscription, expiresAt, active, now) ==
  IF \E r \in rows : r.email = email
  THEN {IF r.email = email
        THEN [r EXCEPT !.active = active,
                       !.expires_at = expiresAt,
                       !.stripe_customer_id = customer,
                       !.stripe_subscription_id = subscription,
                       !.updated_at = now]
        ELSE r : r \in rows}
  ELSE rows \cup {Row(email, active, expiresAt, customer, subscription, now, now)}

\* An upsert that deletes the row of the email and inserts a new one.
upsertLicense_Recreate(rows, email, customer, subscription, expiresAt, active, now) ==
  {r \in rows : r.email # ToLowerCase(email)}
    \cup {Row(ToLowerCase(email), active, expiresAt, customer, subscription,
              now, now)}

\* An UPDATE for an upsert: nothing is written when the email has no row.
upsertLicense_UpdateOnly(rows, email, customer, subscription, expiresAt, active, now) ==
  {IF r.email = ToLowerCase(email)
   THEN [r EXCEPT !.active = active,
                  !.expires_at = expiresAt,
                  !.stripe_customer_id = customer,
                  !.stripe_subscription_id = subscription,
                  !.updated_at = now]
   ELSE r : r \in rows}

\* An upsert whose DO UPDATE keeps a stored ref when the new one is NULL
\* (COALESCE(EXCLUDED.ref, licenses.ref)).
upsertLicense_Merge(rows, email, customer, subscription, expiresAt, active, now) ==
  IF \E r \in rows : r.email = ToLowerCase(email)
  THEN {IF r.email = ToLowerCase(email)
        THEN [r EXCEPT !.active = active,
                       !.expires_at = expiresAt,
                       !.stripe_customer_id =
                         IF customer = {} THEN @ ELSE customer,
                       !.stripe_subscription_id =
                         IF subscription = {} THEN @ ELSE subscription,
                       !.updated_at = now]
        ELSE r : r \in rows}
  ELSE rows \cup {Row(ToLowerCase(email), active, expiresAt, customer,
                      subscription, now, now)}

\* INSERT ... ON CONFLICT (email) DO UPDATE ... with the parameters of
\* upsertLicense; email is a string here (the caller has ruled out a throw).
upsertLicense(rows, email, customer, subscription, expiresAt, active, now) ==
  LET key == ToLowerCase(email)
  IN IF \E r \in rows : r.email = key
     THEN {IF r.email = key
           THEN [r EXCEPT !.active = active,
                          !.expires_at = expiresAt,
                          !.stripe_customer_id = customer,
                          !.stripe_subscription_id = subscription,
                          !.updated_at = now]
           ELSE r : r \in rows}
     ELSE rows \cup {Row(key, active, expiresAt, customer, subscription, now, now)}

\* SELECT * FROM licenses WHERE email = $1, res.rows[0]: {} is undefined.
findLicenseByEmail(rows, email) ==
  LET found == {r \in rows : r.email = ToLowerCase(email)}
  IN IF found = {} THEN {} ELSE {CHOOSE r \in found : TRUE}

\* ------------------------------------------------------------- constants
\* const { email, months = 1 } = req.body
DefaultMonths == 1
\* now.setMonth(now.getMonth() + 1) of the two renewal events
RenewalMonths == 1
\* const WEBHOOK_SECRET = process.env.STRIPE_WEBHOOK_SECRET
WEBHOOK_SECRET == "whsec_live"

\* ---------------------------------------------------------- check-license
\* The expiration test with <= for <.
IsExpired_AtOrBefore(expiresAt, now) == \E t \in expiresAt : t <= now

\* lic.expires_at && new Date(lic.expires_at) < new Date()
IsExpired(expiresAt, now) == \E t \in expiresAt : t < now

\* The query with the expiration test moved before the test of active.
CheckLicense_ExpiryFirst(rows, email, dbOk, now) ==
  IF ~Truthy(email)
  THEN [route |-> "check", email |-> email, at |-> now, read |-> "none",
        status |-> 200, valid |-> FALSE, message |-> "Missing email.",
        expiresAt |-> {}]
  ELSE IF ~IsString(email) \/ ~dbOk
  THEN [route |-> "check", email |-> email, at |-> now,
        read |-> IF IsString(email) THEN "failed" ELSE "none",
        status |-> 200, valid |-> FALSE, message |-> "Server error.",
        expiresAt |-> {}]
  ELSE LET lic == {r \in rows : r.email = ToLowerCase(email.s)}
           answer(valid, message, expiresAt) ==
             [route |-> "check", email |-> email, at |-> now, read |-> "ok",
              status |-> 200, valid |-> valid, message |-> message,
              expiresAt |-> expiresAt]
       IN IF lic = {} THEN answer(FALSE, "Not licensed.", {})
          ELSE LET l == CHOOSE r \in lic : TRUE
               IN IF \E t \in l.expires_at : t < now
                  THEN answer(FALSE, "Subscription expired.", {})
                  ELSE IF ~l.active
                  THEN answer(FALSE, "Subscription inactive.", {})
                  ELSE answer(TRUE, "Valid license.", l.expires_at)

\* The request (email, the time at, and read: how the SELECT went, "none"
\* when the handler never sent it) and the JSON answered.
CheckReply(email, now, read, valid, message, expiresAt) ==
  [route |-> "check", email |-> email, at |-> now, read |-> read,
   status |-> 200, valid |-> valid, message |-> message,
   expiresAt |-> expiresAt]

\* A query whose catch answers valid.
CheckLicense_FailOpen(rows, email, dbOk, now) ==
  IF ~Truthy(email)
  THEN CheckReply(email, now, "none", FALSE, "Missing email.", {})
  ELSE IF ~IsString(email)
  THEN CheckReply(email, now, "none", TRUE, "Server error.", {})
  ELSE IF ~dbOk
  THEN CheckReply(email, now, "failed", TRUE, "Server error.", {})
  ELSE LET lic == {r \in rows : r.email = ToLowerCase(email.s)}
       IN IF lic = {}
          THEN CheckReply(email, now, "ok", FALSE, "Not licensed.", {})
          ELSE LET l == CHOOSE r \in lic : TRUE
               IN IF ~l.active
                  THEN CheckReply(email, now, "ok", FALSE,
                                  "Subscription inactive.", {})
                  ELSE IF \E t \in l.expires_at : t < now
                  THEN CheckReply(email, now, "ok", FALSE,
                                  "Subscription expired.", {})
                  ELSE CheckReply(email, now, "ok", TRUE, "Valid license.",
                                  l.expires_at)

\* app.post('/check-license'): the JSON it answers.  dbOk: pool.query
\* resolves (FALSE: it rejects, and the catch answers 'Server error.').
CheckLicense(rows, email, dbOk, now) ==
  IF ~Truthy(email)
  THEN CheckReply(email, now, "none", FALSE, "Missing email.", {})
  ELSE IF ~IsString(email)
  THEN CheckReply(email, now, "none", FALSE, "Server error.", {})
  ELSE IF ~dbOk
  THEN CheckReply(email, now, "failed", FALSE, "Server error.", {})
  ELSE LET lic == findLicenseByEmail(rows, email.s)
       IN IF lic = {}
          THEN CheckReply(email, now, "ok", FALSE, "Not licensed.", {})
          ELSE LET l == CHOOSE r \in lic : TRUE
               IN IF ~l.active
                  THEN CheckReply(email, now, "ok", FALSE,
                                  "Subscription inactive.", {})
                  ELSE IF IsExpired(l.expires_at, now)
                  THEN CheckReply(email, now, "ok", FALSE,
                                  "Subscription expired.", {})
                  ELSE CheckReply(email, now, "ok", TRUE, "Valid license.",
                                  l.expires_at)

\* ------------------------------------------------------------ admin grant
\* adminKey !== process.env.ADMIN_API_KEY
KeyRejected(adminKey, envKey) == adminKey # envKey

\* The request (key: the x-admin-key header; email and months as the
\* handler used them, Undefined and {} when it never did; applied: the
\* identity whose row was written, {} when none was) and the answer.
AdminReply(key, status, ok, message, email, applied, months) ==
  [route |-> "admin", key |-> key, status |-> status, ok |-> ok,
   message |-> message, email |-> email, applied |-> applied,
   months |-> months]

\* A grant that keeps the expires_at of a row it finds.
AdminAddLicense_KeepExpiry(rows, envKey, key, email, months, dbOk, now, fate) ==
  IF KeyRejected(key, envKey)
  THEN [licenses |-> rows, alive |-> TRUE,
        resp |-> AdminReply(key, 403, FALSE, "Forbidden", Undefined, {}, {})]
  ELSE IF ~Truthy(email)
  THEN [licenses |-> rows, alive |-> TRUE,
        resp |-> AdminReply(key, 200, FALSE, "Email required.", Undefined,
                            {}, {})]
  ELSE IF ~IsString(email) \/ ~dbOk
  THEN [licenses |-> rows, alive |-> fate # "exit",
        resp |-> AdminReply(key, IF fate = "500" THEN 500 ELSE 0, FALSE,
                            "Unhandled rejection", Undefined, {}, {})]
  ELSE LET m == IF months = {} THEN DefaultMonths
                ELSE CHOOSE n \in months : TRUE
           found == findLicenseByEmail(rows, email.s)
           expiresAt == IF found = {} THEN {AddMonths(now, m)}
                        ELSE (CHOOSE r \in found : TRUE).expires_at
       IN [licenses |-> upsertLicense(rows, email.s, ToSql(Null), ToSql(Null),
                                      expiresAt, TRUE, now),
           alive |-> TRUE,
           resp |-> AdminReply(key, 200, TRUE, "", email,
                               {ToLowerCase(email.s)}, {m})]

\* app.post('/admin/add-license').  months: {} when the body has none.
\* The handler has no try/catch: when upsertLicense throws (email is not a
\* string, or pool.query rejects) the rejection is unhandled, and what
\* follows depends on the node and express versions (fate): the process
\* exits, the request is never answered (status 0), or express answers 500.
AdminAddLicense(rows, envKey, key, email, months, dbOk, now, fate) ==
  IF KeyRejected(key, envKey)
  THEN [licenses |-> rows, alive |-> TRUE,
        resp |-> AdminReply(key, 403, FALSE, "Forbidden", Undefined, {}, {})]
  ELSE IF ~Truthy(email)
  THEN [licenses |-> rows, alive |-> TRUE,
        resp |-> AdminReply(key, 200, FALSE, "Email required.", Undefined,
                            {}, {})]
  ELSE IF ~IsString(email) \/ ~dbOk
  THEN [licenses |-> rows, alive |-> fate # "exit",
        resp |-> AdminReply(key, IF fate = "500" THEN 500 ELSE 0, FALSE,
                            "Unhandled rejection", Undefined, {}, {})]
  ELSE LET m == IF months = {} THEN DefaultMonths ELSE CHOOSE n \in months : TRUE
           expiresAt == AddMonths(now, m)
       IN [licenses |-> upsertLicense(rows, email.s, ToSql(Null), ToSql(Null),
                                      {expiresAt}, TRUE, now),
           alive |-> TRUE,
           resp |-> AdminReply(key, 200, TRUE, "", email,
                               {ToLowerCase(email.s)}, {m})]

\* --------------------------------------------------------- stripe webhook
\* The signature Stripe computes over a payload with a secret (an ideal MAC).
Sign(payload, secret) == [signed |-> payload, secret |-> secret]

\* A verification that checks the secret of the signature and not the
\* payload it was computed over.
constructEvent_SecretOnly(body, sig, secret) ==
  \E header \in sig : header.secret = secret

\* stripe.webhooks.constructEvent(req.body, sig, WEBHOOK_SECRET): TRUE when
\* it returns the event, FALSE when it throws.  sig: {} when the header is
\* absent.  Stripe signs every delivery of an event afresh, so the
\* timestamp tolerance never rejects a delivery by Stripe and is left out.
constructEvent(body, sig, secret) == sig = {Sign(body, secret)}

\* The request (the event's type and refs, sigKind: how its signature
\* header was made) and the answer; for a verified event also the email it
\* resolved to, whether customers.retrieve returned, and applied: the
\* identity whose row was written, {} when none was.
WebhookReply(body, sigKind, status, email, lookupOk, applied) ==
  [route |-> "webhook", type |-> body.type, customer |-> body.customer,
   subscription |-> body.subscription, sigKind |-> sigKind,
   status |-> status, email |-> email, lookupOk |-> lookupOk,
   applied |-> applied]

HandledTypes == {"checkout.session.completed", "invoice.payment_succeeded",
                 "customer.subscription.deleted"}
\* The event types whose handler calls stripe.customers.retrieve.
CustomerKeyed == {"invoice.payment_succeeded", "customer.subscription.deleted"}

\* The parameters the three handled event types give upsertLicense; email
\* is what the event resolves to (lookup: the result of
\* stripe.customers.retrieve, ok FALSE when it throws).
EventEmail(body, lookup) ==
  IF body.type = "checkout.session.completed" THEN body.email ELSE lookup.email

\* A handling that adds the month to the expires_at of the row it finds
\* when that is later than now.
HandleEvent_Accumulate(rows, body, lookup, dbOk, now) ==
  LET email == EventEmail(body, lookup)
      threw == \/ (body.type # "checkout.session.completed" /\ ~lookup.ok)
               \/ ~IsString(email)
               \/ ~dbOk
      stored == UNION {r.expires_at : r \in findLicenseByEmail(rows, email.s)}
      from == IF \E t \in stored : t > now
              THEN CHOOSE t \in stored : TRUE ELSE now
  IN CASE body.type \notin HandledTypes -> rows
       [] threw -> rows
       [] body.type = "customer.subscription.deleted" ->
            upsertLicense(rows, email.s, ToSql(Undefined), ToSql(Undefined),
                          {now}, FALSE, now)
       [] OTHER ->
            upsertLicense(rows, email.s, ToSql(body.customer),
                          ToSql(body.subscription),
                          {AddMonths(from, RenewalMonths)}, TRUE, now)

\* The body of the try block: the rows after it.  A throw anywhere in it
\* (retrieve fails, email has no toLowerCase, pool.query rejects) is caught
\* and leaves the rows as they were.
HandleEvent(rows, body, lookup, dbOk, now) ==
  LET email == EventEmail(body, lookup)
      threw == \/ (body.type # "checkout.session.completed" /\ ~lookup.ok)
               \/ ~IsString(email)
               \/ ~dbOk
  IN CASE body.type \notin HandledTypes -> rows
       [] threw -> rows
       [] body.type = "customer.subscription.deleted" ->
            upsertLicense(rows, email.s, ToSql(Undefined), ToSql(Undefined),
                          {now}, FALSE, now)
       [] OTHER ->
            upsertLicense(rows, email.s, ToSql(body.customer),
                          ToSql(body.subscription),
                          {AddMonths(now, RenewalMonths)}, TRUE, now)

\* The identity the event was applied to: {} when no row was written.
AppliedTo(body, lookup, dbOk) ==
  LET email == EventEmail(body, lookup)
  IN IF /\ body.type \in HandledTypes
        /\ (body.type = "checkout.session.completed" \/ lookup.ok)
        /\ IsString(email)
        /\ dbOk
     THEN {ToLowerCase(email.s)}
     ELSE {}

\* A webhook that answers 500 when handling a verified event threw.
StripeWebhook_RejectOnFailure(rows, body, sig, sigKind, lookup, dbOk, now) ==
  IF sig # {Sign(body, WEBHOOK_SECRET)}
  THEN [licenses |-> rows,
        resp |-> WebhookReply(body, sigKind, 400, Undefined, FALSE, {})]
  ELSE IF body.type \notin HandledTypes
  THEN [licenses |-> rows,
        resp |-> WebhookReply(body, sigKind, 200, Undefined, FALSE, {})]
  ELSE IF body.type \in CustomerKeyed /\ ~lookup.ok
  THEN [licenses |-> rows,
        resp |-> WebhookReply(body, sigKind, 500, Undefined, FALSE, {})]
  ELSE [licenses |-> HandleEvent(rows, body, lookup, dbOk, now),
        resp |-> WebhookReply(body, sigKind,
                              IF AppliedTo(body, lookup, dbOk) = {}
                              THEN 500 ELSE 200,
                              EventEmail(body, lookup),
                              body.type \in CustomerKeyed,
                              AppliedTo(body, lookup, dbOk))]

\* app.post('/stripe/webhook')
StripeWebhook(rows, body, sig, sigKind, lookup, dbOk, now) ==
  IF ~constructEvent(body, sig, WEBHOOK_SECRET)
  THEN [licenses |-> rows,
        resp |-> WebhookReply(body, sigKind, 400, Undefined, FALSE, {})]
  ELSE IF body.type \notin HandledTypes
  THEN [licenses |-> rows,
        resp |-> WebhookReply(body, sigKind, 200, Undefined, FALSE, {})]
  ELSE IF body.type \in CustomerKeyed /\ ~lookup.ok
  THEN [licenses |-> rows,
        resp |-> WebhookReply(body, sigKind, 200, Undefined, FALSE, {})]
  ELSE [licenses |-> HandleEvent(rows, body, lookup, dbOk, now),
        resp |-> WebhookReply(body, sigKind, 200, EventEmail(body, lookup),
                              body.type \in CustomerKeyed,
                              AppliedTo(body, lookup, dbOk))]

\* ----------------------------------------------------------------- inputs
\* What a request body gives as email.
EmailInputs == {Undefined, Str(""), Str("a@x.com"), Str("A@X.com"), Num123}
\* The x-admin-key header ({"undefined"} side: the header is absent).
KeyInputs == {Undefined, Str("k1"), Str("k2")}
\* The months of a request body ({}: none given).
MonthsInputs == {{}, {0 - 1}, {0}, {2}}
\* What follows an unhandled rejection.
Fates == {"exit", "noreply", "500"}

\* The events Stripe sends, reduced to what the handler reads.
Event(type, email, customer, subscription) ==
  [type |-> type, email |-> email, customer |-> customer,
   subscription |-> subscription]

Events ==
  {Event("checkout.session.completed", e, Str("cus_1"), Str("sub_1")) :
     e \in {Str("a@x.com"), Str("A@X.com"), Str(""), Null}}
  \cup {Event(t, Undefined, Str("cus_1"), Str("sub_1")) :
          t \in {"invoice.payment_succeeded", "customer.subscription.deleted",
                 "charge.refunded"}}

\* What stripe.customers.retrieve gives: it throws (ok FALSE), or a
\* customer whose email is a string, null, or missing (a deleted customer).
Lookups ==
  {[ok |-> FALSE, email |-> Undefined]}
  \cup {[ok |-> TRUE, email |-> e] :
          e \in {Undefined, Null, Str(""), Str("a@x.com"), Str("A@X.com")}}

\* The stripe-signature header of a request with this body: signed by
\* Stripe over this body, signed by Stripe over another payload (the body
\* was tampered with), signed with another secret, or absent.
SigKinds == {"valid", "tampered", "forged", "missing"}
Original == Event("charge.refunded", Undefined, Str("cus_2"), Str("sub_2"))
SigHeader(body, kind) ==
  CASE kind = "valid" -> {Sign(body, WEBHOOK_SECRET)}
    [] kind = "tampered" -> {Sign(Original, WEBHOOK_SECRET)}
    [] kind = "forged" -> {Sign(body, "whsec_guess")}
    [] OTHER -> {}

\* ------------------------------------------------------------------- init
\* initDb() on an empty database; ADMIN_API_KEY is set or not.
Init ==
  /\ licenses = {}
  /\ clock = 0
  /\ adminApiKey \in {Undefined, Str("k1")}
  /\ alive = TRUE
  /\ last = [route |-> "none"]
  /\ nreq = 0
  /\ processed = {}
  /\ replayed = {}
  /\ before = [rows |-> {}, last |-> [route |-> "none"]]
  /\ inflight = {}

\* ---------------------------------------------------------------- actions
Serving == alive /\ nreq < MaxRequests

Tick ==
  /\ clock < MaxClock
  /\ clock' = clock + 1
  /\ UNCHANGED <<licenses, adminApiKey, alive, last, nreq, processed, replayed, before, inflight>>

\* A request is drawn with what its handler meets on the way (whether
\* pool.query resolves, what customers.retrieve gives, what follows an
\* unhandled rejection); requests that differ only in something the handler
\* never reached have the same outcome and are one step.
CheckLicenseRequest ==
  /\ Serving
  /\ \E r \in {CheckLicense(licenses, email, dbOk, clock) :
                 email \in EmailInputs, dbOk \in BOOLEAN} :
       last' = r
  /\ nreq' = nreq + 1
  /\ UNCHANGED <<licenses, clock, adminApiKey, alive, processed, replayed, before, inflight>>

AdminOutcomes ==
  {AdminAddLicense(licenses, adminApiKey, key, email, months, dbOk, clock, fate) :
     key \in KeyInputs, email \in EmailInputs, months \in MonthsInputs,
     dbOk \in BOOLEAN, fate \in Fates}

AdminAddLicenseRequest ==
  /\ Serving
  /\ \E r \in AdminOutcomes :
       /\ licenses' = r.licenses
       /\ alive' = r.alive
       /\ last' = r.resp
  /\ nreq' = nreq + 1
  /\ UNCHANGED <<clock, adminApiKey, processed, replayed, before, inflight>>

WebhookOutcomes ==
  {StripeWebhook(licenses, body, SigHeader(body, sigKind), sigKind, lookup,
                 dbOk, clock) :
     body \in Events, sigKind \in SigKinds, lookup \in Lookups, dbOk \in BOOLEAN}

StripeWebhookRequest ==
  /\ Serving
  /\ \E r \in WebhookOutcomes :
       /\ licenses' = r.licenses
       /\ last' = r.resp
  /\ nreq' = nreq + 1
  /\ UNCHANGED <<clock, adminApiKey, alive, processed, replayed, before, inflight>>

Next ==
  \/ Tick
  \/ CheckLicenseRequest
  \/ AdminAddLicenseRequest
  \/ StripeWebhookRequest

Spec == Init /\ [][Next]_vars

\* ------------------------------------------------- deliveries with history
\* The same requests, with the history of the grant events kept: Stripe
\* may deliver an event more than once, each delivery validly signed.
GrantTypes == {"checkout.session.completed", "invoice.payment_succeeded"}

\* A grant event is re-delivered when it was applied to the same identity
\* before; it re-activates when the row it finds is a cancelled one.
Reactivates(rows, body, key) ==
  /\ <<body, key>> \in processed
  /\ \E r \in rows : r.email = key /\ ~r.active

AdminAddLicenseTracked ==
  /\ Serving
  /\ \E r \in AdminOutcomes :
       /\ licenses' = r.licenses
       /\ alive' = r.alive
       /\ last' = r.resp
       /\ replayed' = replayed \ r.resp.applied
  /\ nreq' = nreq + 1
  /\ UNCHANGED <<clock, adminApiKey, processed, before, inflight>>

WebhookDeliveries ==
  {[body |-> body,
    out |-> StripeWebhook(licenses, body, SigHeader(body, sigKind), sigKind,
                          lookup, dbOk, clock)] :
     body \in Events, sigKind \in SigKinds, lookup \in Lookups, dbOk \in BOOLEAN}

StripeWebhookDelivery ==
  /\ Serving
  /\ \E r \in WebhookDeliveries :
       LET applied == r.out.resp.applied
       IN /\ licenses' = r.out.licenses
          /\ last' = r.out.resp
          /\ processed' = IF r.body.type \in GrantTypes
                          THEN processed \cup {<<r.body, k>> : k \in applied}
                          ELSE processed
          /\ replayed' = IF r.body.type \in GrantTypes
                         THEN (replayed \ applied)
                              \cup {k \in applied : Reactivates(licenses, r.body, k)}
                         ELSE replayed \ applied
  /\ nreq' = nreq + 1
  /\ UNCHANGED <<clock, adminApiKey, alive, before, inflight>>

NextReplay ==
  \/ Tick
  \/ CheckLicenseRequest
  \/ AdminAddLicenseTracked
  \/ StripeWebhookDelivery

SpecReplay == Init /\ [][NextReplay]_vars

\* -------------------------------------------------- requests with history
\* The same requests, each keeping the table and the last request it found.
MaxHistRequests == 2

Snapshot == [rows |-> licenses, last |-> last]

CheckLicenseAfter ==
  /\ alive /\ nreq < MaxHistRequests
  /\ \E r \in {CheckLicense(licenses, email, dbOk, clock) :
                 email \in EmailInputs, dbOk \in BOOLEAN} :
       last' = r
  /\ before' = Snapshot
  /\ nreq' = nreq + 1
  /\ UNCHANGED <<licenses, clock, adminApiKey, alive, processed, replayed,
                 inflight>>

AdminAddLicenseAfter ==
  /\ alive /\ nreq < MaxHistRequests
  /\ \E r \in AdminOutcomes :
       /\ licenses' = r.licenses
       /\ alive' = r.alive
       /\ last' = r.resp
  /\ before' = Snapshot
  /\ nreq' = nreq + 1
  /\ UNCHANGED <<clock, adminApiKey, processed, replayed, inflight>>

StripeWebhookAfter ==
  /\ alive /\ nreq < MaxHistRequests
  /\ \E r \in WebhookOutcomes :
       /\ licenses' = r.licenses
       /\ last' = r.resp
  /\ before' = Snapshot
  /\ nreq' = nreq + 1
  /\ UNCHANGED <<clock, adminApiKey, alive, processed, replayed, inflight>>

NextHist ==
  \/ Tick
  \/ CheckLicenseAfter
  \/ AdminAddLicenseAfter
  \/ StripeWebhookAfter

SpecHist == Init /\ [][NextHist]_vars

\* ---------------------------------------------------- concurrent handlers
\* Handlers are async functions: one is suspended at await
\* stripe.customers.retrieve and at await pool.query while others run.
\* Here the reconciliations of one identity (the key is right, the
\* signature valid, the email a non-empty string, no fault) run
\* concurrently.  A handler in flight: stage "lookup" between the arrival
\* of a customer-keyed event and the return of customers.retrieve, stage
\* "upsert" between sending the INSERT and its commit; upsert holds the
\* parameters of the statement (as the row it would insert in an empty
\* table) and resp the answer the handler gives after it.
MaxConcRequests == 2

ConcEmails == {Str("a@x.com"), Str("A@X.com")}
ConcMonths == {{}, {2}}
ConcEvents ==
  {b \in Events : /\ b.type \in HandledTypes
                  /\ (b.type \in CustomerKeyed \/ b.email \in ConcEmails)}
ConcLookups == {l \in Lookups : l.ok /\ l.email \in ConcEmails}

Handler(id, stage, body, upsert, resp) ==
  [id |-> id, stage |-> stage, body |-> body, upsert |-> upsert, resp |-> resp]

\* What AdminAddLicense and StripeWebhook send and answer, at this time.
AdminStatements ==
  {[upsert |-> out.licenses, resp |-> out.resp] :
     out \in {AdminAddLicense({}, adminApiKey, adminApiKey, email, months,
                              TRUE, clock, "500") :
                email \in ConcEmails, months \in ConcMonths}}

WebhookStatements(body) ==
  {[upsert |-> out.licenses, resp |-> out.resp] :
     out \in {StripeWebhook({}, body, SigHeader(body, "valid"), "valid",
                            lookup, TRUE, clock) :
                lookup \in ConcLookups}}

Arriving == alive /\ nreq < MaxConcRequests

\* /admin/add-license runs to await pool.query.
AdminAddLicenseSends ==
  /\ Arriving
  /\ \E c \in AdminStatements :
       inflight' = inflight \cup {Handler(nreq, "upsert", {}, c.upsert, c.resp)}
  /\ nreq' = nreq + 1
  /\ UNCHANGED <<licenses, clock, adminApiKey, alive, last, processed,
                 replayed, before>>

\* /stripe/webhook runs to its first await: pool.query for a checkout
\* event, stripe.customers.retrieve for the customer-keyed events.
StripeWebhookArrives ==
  /\ Arriving
  /\ \E body \in ConcEvents :
       IF body.type \in CustomerKeyed
       THEN inflight' = inflight
              \cup {Handler(nreq, "lookup", {body}, {}, [route |-> "none"])}
       ELSE \E c \in WebhookStatements(body) :
              inflight' = inflight
                \cup {Handler(nreq, "upsert", {body}, c.upsert, c.resp)}
  /\ nreq' = nreq + 1
  /\ UNCHANGED <<licenses, clock, adminApiKey, alive, last, processed,
                 replayed, before>>

\* customers.retrieve returns: the handler takes new Date() and runs to
\* await pool.query.
CustomerRetrieved ==
  /\ \E h \in inflight :
       /\ h.stage = "lookup"
       /\ \E body \in h.body : \E c \in WebhookStatements(body) :
            inflight' = (inflight \ {h})
              \cup {Handler(h.id, "upsert", h.body, c.upsert, c.resp)}
  /\ UNCHANGED <<licenses, clock, adminApiKey, alive, last, nreq, processed,
                 replayed, before>>

\* The statement of a handler commits and the handler answers.  NOW() is
\* the time the statement's transaction started, not the time of its
\* commit: statements commit in any order.
UpsertCommits ==
  /\ \E h \in inflight :
       /\ h.stage = "upsert"
       /\ \E c \in h.upsert :
            licenses' = upsertLicense(licenses, c.email, c.stripe_customer_id,
                                      c.stripe_subscription_id, c.expires_at,
                                      c.active, c.updated_at)
       /\ last' = h.resp
       /\ inflight' = inflight \ {h}
  /\ UNCHANGED <<clock, adminApiKey, alive, nreq, processed, replayed, before>>

NextConc ==
  \/ Tick
  \/ AdminAddLicenseSends
  \/ StripeWebhookArrives
  \/ CustomerRetrieved
  \/ UpsertCommits

SpecConc == Init /\ [][NextConc]_vars

\* ================================================================= claims
\* A step that handles a request (Tick handles none).
RequestStep == nreq' = nreq + 1

\* The rows of an identity.
RowsOf(rows, key) == {r \in rows : r.email = key}

\* What a query for this identity would be answered now.
WouldBeValid(key) == CheckLicense(licenses, Str(key), TRUE, clock).valid

\* ---------------------------------------------------------------------- C1
\* C1: a webhook request whose signature verification fails (the payload
\* was tampered with, the signature is forged or missing) is answered with
\* a non-success status and leaves the licenses table exactly as it was,
\* whatever the type of the event in its payload.
C1_UnverifiedChangesNothing ==
  [][(RequestStep /\ last'.route = "webhook" /\ last'.sigKind # "valid")
       => (last'.status = 400 /\ licenses' = licenses)]_vars

\* A tampered checkout event was rejected while the table held a row.
C1_Witness ==
  /\ last.route = "webhook"
  /\ last.sigKind = "tampered"
  /\ last.type = "checkout.session.completed"
  /\ last.status = 400
  /\ licenses # {}

\* ---------------------------------------------------------------------- C2
\* C2: an admin grant changes the licenses table only when the supplied key
\* equals a configured admin key; with the key absent or different, or no
\* admin key configured, no row is created or modified.
C2_GrantNeedsConfiguredKey ==
  [][(RequestStep /\ last'.route = "admin" /\ licenses' # licenses)
       => (adminApiKey.t = "string" /\ last'.key = adminApiKey)]_vars

\* ---------------------------------------------------------------------- C3
\* C3: once a cancellation has been applied for an identity, a re-delivered
\* checkout-completed or invoice-paid event that had been applied to that
\* identity before does not make a query for the identity valid.
C3_ReplayDoesNotGrant == \A key \in replayed : ~WouldBeValid(key)

\* ---------------------------------------------------------------------- C4
\* The answer the decision table of the license query gives.
Decision(rows, email, now) ==
  IF ~Truthy(email) THEN <<FALSE, "Missing email.", {}>>
  ELSE LET mine == RowsOf(rows, ToLowerCase(email.s))
       IN IF mine = {} THEN <<FALSE, "Not licensed.", {}>>
          ELSE IF \E r \in mine : ~r.active
          THEN <<FALSE, "Subscription inactive.", {}>>
          ELSE IF \E r \in mine : \E t \in r.expires_at : t < now
          THEN <<FALSE, "Subscription expired.", {}>>
          ELSE <<TRUE, "Valid license.", UNION {r.expires_at : r \in mine}>>

\* C4: a query whose email is missing or a string, and whose read of the
\* table succeeds, is answered exactly by the decision table: missing email,
\* not licensed, inactive (before expiration is looked at), expired when
\* expiresAt is strictly before the time of the query, valid otherwise with
\* the row's expiresAt.
C4_QueryFollowsDecisionTable ==
  (last.route = "check" /\ last.read # "failed" /\ last.email.t # "number")
    => <<last.valid, last.message, last.expiresAt>>
         = Decision(licenses, last.email, last.at)

\* A query was answered "inactive" for a row whose expiresAt had passed.
C4_Witness ==
  /\ last.route = "check"
  /\ last.message = "Subscription inactive."
  /\ \E r \in RowsOf(licenses, ToLowerCase(last.email.s)) :
       \E t \in r.expires_at : t < last.at

\* ---------------------------------------------------------------------- C5
\* The expiresAt of the active row a successful query read (none when the
\* last request was no such query).
QueriedExpiresAt ==
  IF last.route = "check" /\ last.read = "ok"
  THEN UNION {r.expires_at :
                r \in {q \in RowsOf(licenses, ToLowerCase(last.email.s)) : q.active}}
  ELSE {}

\* C5 as claimed: an active License whose expiresAt T is at or before the
\* time of the query is reported not valid (T = now is expired).
C5_ExpiredAtOrBeforeNow ==
  \A T \in QueriedExpiresAt : T <= last.at => ~last.valid

\* C5 amended: an active License with expiresAt T is reported not valid
\* exactly when T is strictly before the time of the query; T equal to the
\* time of the query is still valid.
C5_ExpiredStrictlyBeforeNow ==
  \A T \in QueriedExpiresAt : last.valid <=> T >= last.at

\* A query at the very time of expiresAt was answered valid.
C5_Witness ==
  /\ last.route = "check"
  /\ last.valid
  /\ last.expiresAt = {last.at}

\* ---------------------------------------------------------------------- C6
\* C6: every row is keyed by a lower-cased email, no two rows have the same
\* identity, and the case variants of an email read the same row.
C6_OneRowPerIdentity ==
  /\ \A r \in licenses : r.email = ToLowerCase(r.email)
  /\ \A r1, r2 \in licenses :
       ToLowerCase(r1.email) = ToLowerCase(r2.email) => r1 = r2
  /\ \A e1, e2 \in {e \in EmailInputs : IsString(e)} :
       ToLowerCase(e1.s) = ToLowerCase(e2.s)
         => findLicenseByEmail(licenses, e1.s) = findLicenseByEmail(licenses, e2.s)

\* An admin grant for A@X.com updated the one row of a@x.com, made earlier.
C6_Witness ==
  /\ last.route = "admin"
  /\ last.email = Str("A@X.com")
  /\ last.applied = {"a@x.com"}
  /\ Cardinality(RowsOf(licenses, "a@x.com")) = 1
  /\ \E r \in RowsOf(licenses, "a@x.com") : r.created_at < r.updated_at
  /\ findLicenseByEmail(licenses, "A@X.com") = RowsOf(licenses, "a@x.com")

\* ---------------------------------------------------------------------- C7
\* The reconciler table: what a command (as recorded in c) derives for the
\* row of its identity, prior being the rows of that identity before it.
TableActive(c) == c.route = "admin" \/ c.type # "customer.subscription.deleted"
TableExpiresAt(c, now) ==
  IF c.route = "admin" THEN {AddMonths(now, CHOOSE n \in c.months : TRUE)}
  ELSE IF c.type = "customer.subscription.deleted" THEN {now}
  ELSE {AddMonths(now, 1)}
TableCustomer(c, prior) ==
  IF c.route = "admin" THEN {}
  ELSE IF c.type = "customer.subscription.deleted"
  THEN UNION {r.stripe_customer_id : r \in prior}
  ELSE ToSql(c.customer)
TableSubscription(c, prior) ==
  IF c.route = "admin" THEN {}
  ELSE IF c.type = "customer.subscription.deleted"
  THEN UNION {r.stripe_subscription_id : r \in prior}
  ELSE ToSql(c.subscription)

\* A step that applies a command to the row of an identity.
Applies(key) ==
  /\ RequestStep
  /\ last'.route \in {"admin", "webhook"}
  /\ last'.applied = {key}

\* The identities of the model: the lower-cased non-empty emails.
Identities == {ToLowerCase(e.s) : e \in {e \in EmailInputs : IsString(e)}} \ {""}

\* C7: after a command is applied, the row of its identity has exactly the
\* active, expiresAt and billing refs the reconciler table derives from that
\* command, whatever was applied before.
C7_LastCommandDecidesRow ==
  [][\A key \in Identities :
       Applies(key) =>
         \E r \in RowsOf(licenses', key) :
           /\ r.active = TableActive(last')
           /\ r.expires_at = TableExpiresAt(last', clock)
           /\ r.stripe_customer_id = TableCustomer(last', RowsOf(licenses, key))
           /\ r.stripe_subscription_id
                = TableSubscription(last', RowsOf(licenses, key))]_vars

\* ---------------------------------------------------------------------- C8
\* C8: a subscription-canceled event applied to an existing License leaves
\* its two billing refs as they were, sets active to false and expiresAt to
\* the processing time.
C8_CancelKeepsRefs ==
  [][\A key \in Identities :
       (/\ Applies(key)
        /\ last'.route = "webhook"
        /\ last'.type = "customer.subscription.deleted")
         => \A r \in RowsOf(licenses, key) :
              \E q \in RowsOf(licenses', key) :
                /\ q.stripe_customer_id = r.stripe_customer_id
                /\ q.stripe_subscription_id = r.stripe_subscription_id
                /\ ~q.active
                /\ q.expires_at = {clock}]_vars

\* ---------------------------------------------------------------------- C9
\* C9: the expiresAt an admin grant, a checkout-completed or an invoice-paid
\* event writes is strictly later than the time the command is processed.
C9_ExpiresAtInFuture ==
  [][\A key \in Identities :
       (/\ Applies(key)
        /\ (last'.route = "admin" \/ last'.type \in GrantTypes))
         => \A r \in RowsOf(licenses', key) :
              \A t \in r.expires_at : t > clock]_vars

\* --------------------------------------------------------------------- C10
\* C10: a verified invoice-paid or subscription-canceled event whose
\* customer lookup fails or yields no email (null, undefined, "") creates
\* and modifies no row.
C10_NoEmailNoRow ==
  [][(/\ RequestStep
      /\ last'.route = "webhook"
      /\ last'.sigKind = "valid"
      /\ last'.type \in CustomerKeyed
      /\ (~last'.lookupOk \/ ~Truthy(last'.email)))
       => licenses' = licenses]_vars

\* --------------------------------------------------------------------- C11
\* C11: the webhook answers non-success exactly when signature verification
\* fails: every verified event is acknowledged (200), handled or
\* unrecognized, whether or not its handling failed.
C11_OnlyUnverifiedIsRefused ==
  last.route = "webhook"
    => (IF last.sigKind = "valid" THEN last.status = 200 ELSE last.status = 400)

\* The last request is a verified event whose email resolved to a string and
\* whose upsert failed (no row was written).
PersistenceFailed ==
  /\ last.route = "webhook"
  /\ last.sigKind = "valid"
  /\ last.type \in HandledTypes
  /\ IsString(last.email)
  /\ last.applied = {}

\* A verified checkout event whose upsert failed was acknowledged.
C11_Witness ==
  /\ PersistenceFailed
  /\ last.type = "checkout.session.completed"
  /\ last.status = 200

\* --------------------------------------------------------------------- C12
\* C12: a verified event whose reconciliation fails on a storage fault gets
\* a non-success acknowledgment (so that the provider delivers it again).
C12_StorageFaultIsRefused == PersistenceFailed => last.status # 200

\* --------------------------------------------------------------------- C16
\* C16: a row, once it exists, exists in every later state with the
\* created_at it was made with; a cancellation only sets active to false.
C16_RowsStayCreatedAtStays ==
  [][\A r \in licenses :
       \E q \in licenses' : q.email = r.email /\ q.created_at = r.created_at]_vars

\* A cancellation was applied to a row made at an earlier time: the row is
\* there, inactive, with its created_at.
C16_Witness ==
  /\ last.route = "webhook"
  /\ last.type = "customer.subscription.deleted"
  /\ \E key \in last.applied : \E r \in RowsOf(licenses, key) :
       ~r.active /\ r.created_at < r.updated_at

\* --------------------------------------------------------------------- C17
\* C17: no request is fatal: with ADMIN_API_KEY configured, after every
\* request the process is running and the request has been answered.
C17_NoRequestIsFatal ==
  IsString(adminApiKey) => alive /\ (last.route # "none" => last.status # 0)

\* --------------------------------------------------------------------- C18
\* What a query for this identity is answered with these rows at this time.
QueryMessage(rows, key, now) == CheckLicense(rows, Str(key), TRUE, now).message

\* C18: a verified subscription-canceled event that is applied leaves a row
\* for its identity (also when there was none) with active false and
\* expiresAt the processing time; and as long as a row is inactive, that is
\* until a later grant is applied, a query for its identity is answered
\* "inactive".
C18_CancelledIsInactive ==
  [][/\ \A key \in Identities :
          (/\ Applies(key)
           /\ last'.route = "webhook"
           /\ last'.type = "customer.subscription.deleted")
            => \E r \in RowsOf(licenses', key) :
                 ~r.active /\ r.expires_at = {clock}
     /\ \A key \in Identities :
          (\E r \in RowsOf(licenses', key) : ~r.active)
            => QueryMessage(licenses', key, clock') = "Subscription inactive."]_vars

\* The first request was a cancellation for an identity with no License,
\* and a later query for it was answered "inactive".
C18_Witness ==
  /\ nreq = 2
  /\ last.route = "check"
  /\ last.message = "Subscription inactive."
  /\ \E r \in RowsOf(licenses, ToLowerCase(last.email.s)) :
       r.created_at = r.updated_at /\ r.stripe_customer_id = {}

\* --------------------------------------------------------------------- C20
\* C20: a query changes no row, and when it cannot read the table (the
\* SELECT fails, or the email is no string) it still answers, not valid.
C20_QueryReadsOnlyFailsClosed ==
  [][(RequestStep /\ last'.route = "check")
       => /\ licenses' = licenses
          /\ last'.status = 200
          /\ (last'.read # "ok" => ~last'.valid)]_vars

\* A query whose SELECT failed was answered not valid although the identity
\* has a License that is valid at that time.
C20_Witness ==
  /\ last.route = "check"
  /\ last.read = "failed"
  /\ ~last.valid
  /\ WouldBeValid(ToLowerCase(last.email.s))

\* --------------------------------------------------------------------- C13
\* A step that applies the admin grant that the last request applied (same
\* key, same email, same months) once more.
SameGrantAgain ==
  /\ RequestStep
  /\ last.route = "admin"
  /\ last.applied # {}
  /\ last'.route = "admin"
  /\ last' = last

\* C13 as stated: the second of two successive applications of the same
\* admin grant leaves the row's identity, active, expiresAt, refs and
\* createdAt as they were; only updatedAt advances.
C13_SecondGrantChangesOnlyUpdatedAt ==
  [][SameGrantAgain
       => \A key \in last.applied : \A r \in RowsOf(licenses, key) :
            \E q \in RowsOf(licenses', key) :
              /\ q.active = r.active
              /\ q.expires_at = r.expires_at
              /\ q.stripe_customer_id = r.stripe_customer_id
              /\ q.stripe_subscription_id = r.stripe_subscription_id
              /\ q.created_at = r.created_at
              /\ q.updated_at >= r.updated_at]_vars

\* C13, amended: the second of two successive applications of the same
\* admin grant leaves the row's identity, active, refs and createdAt as
\* they were; expiresAt is computed anew from the time of the second
\* application (its months after it), and updatedAt is that time.
C13_SecondGrantRecomputesExpiry ==
  [][SameGrantAgain
       => \A key \in last.applied :
            /\ RowsOf(licenses, key) # {}
            /\ \A r \in RowsOf(licenses, key) :
                 \E q \in licenses' :
                   /\ RowsOf(licenses', key) = {q}
                   /\ q.active = r.active
                   /\ q.stripe_customer_id = r.stripe_customer_id
                   /\ q.stripe_subscription_id = r.stripe_subscription_id
                   /\ q.created_at = r.created_at
                   /\ q.expires_at = {AddMonths(clock, m) : m \in last.months}
                   /\ q.updated_at = clock
                   /\ q.updated_at >= r.updated_at]_vars

\* The same admin grant was applied twice in succession, the second time
\* later than the first: the row kept its created_at and has another
\* expires_at.
C13_Witness ==
  /\ last.route = "admin"
  /\ last.applied # {}
  /\ before.last = last
  /\ \E key \in last.applied :
       \E r \in RowsOf(before.rows, key), q \in RowsOf(licenses, key) :
         /\ q.created_at = r.created_at
         /\ q.updated_at > r.updated_at
         /\ q.expires_at # r.expires_at

\* --------------------------------------------------------------------- C19
\* C19: every checkout-completed or invoice-paid event that is applied sets
\* expiresAt to its own processing time plus one month, whatever expiresAt
\* the row had (nothing is added to it, a later date is replaced).
C19_GrantEventResetsExpiry ==
  [][\A key \in Identities :
       (/\ Applies(key)
        /\ last'.route = "webhook"
        /\ last'.type \in GrantTypes)
         => /\ RowsOf(licenses', key) # {}
            /\ \A q \in RowsOf(licenses', key) :
                 q.expires_at = {AddMonths(clock, RenewalMonths)}]_vars

\* A grant event was applied to a row whose expires_at was later than the
\* one the event gave it.
C19_Witness ==
  /\ last.route = "webhook"
  /\ last.type \in GrantTypes
  /\ \E key \in last.applied :
       \E r \in RowsOf(before.rows, key), q \in RowsOf(licenses, key) :
         \E t \in r.expires_at, u \in q.expires_at : u < t

\* --------------------------------------------------------------------- C14
\* The handlers whose upsert commits in this step.
Committing == {h \in inflight \ inflight' : h.stage = "upsert"}

\* C14: in every interleaving of concurrent reconciliations of an identity
\* the table changes only when an upsert commits, and then the identity
\* has exactly one row whose active, expiresAt and both refs are those of
\* the committing command: the last to commit decides all of them, no row
\* mixes the fields of two commands.
C14_CommitWritesOneCommand ==
  [][/\ licenses' # licenses => Committing # {}
     /\ \A h \in Committing : \A c \in h.upsert :
          \E q \in licenses' :
            /\ RowsOf(licenses', c.email) = {q}
            /\ q.active = c.active
            /\ q.expires_at = c.expires_at
            /\ q.stripe_customer_id = c.stripe_customer_id
            /\ q.stripe_subscription_id = c.stripe_subscription_id]_vars

\* Two reconciliations ran concurrently and the admin grant, sent first,
\* committed last over the row a billing event had inserted: the row has
\* the grant's fields, the refs cleared.
C14_Witness ==
  /\ inflight = {}
  /\ last.route = "admin"
  /\ \E key \in last.applied : \E q \in RowsOf(licenses, key) :
       /\ q.updated_at < q.created_at
       /\ q.active
       /\ q.stripe_customer_id = {}
       /\ q.stripe_subscription_id = {}

\* --------------------------------------------------------------------- C15
\* C15: the updatedAt of an identity's row never decreases, also when of
\* two concurrent reconciliations the one that took its timestamp first
\* commits last.
C15_UpdatedAtNeverDecreases ==
  [][\A r \in licenses : \A q \in licenses' :
       q.email = r.email => q.updated_at >= r.updated_at]_vars

====
